---- MODULE Spec2Model ----
(***************************************************************************)
(* A model of converter.py (txt2epub): the conversion of one .txt file     *)
(* into an EPUB book.  A text is a sequence of characters, every character *)
(* a one-element string; the characters outside ASCII that the two regular *)
(* expressions name are written by their code points.                      *)
(***************************************************************************)
EXTENDS Naturals, Integers, Sequences, FiniteSets, TLC

VARIABLES
    pc,           \* the statement of main() (or of the function under study) to run next
    cwd,          \* the files of the working directory, [base, ext]
    front_dir,    \* the file names os.listdir(FRONT_IMAGE_DIRECTORY) returns
    image_dir,    \* the file names os.listdir(IMAGE_DIRECTORY) returns
    broken,       \* the paths whose open() or listdir() raises
    file_text,    \* the content of the .txt file
    txt_file,     \* main's txt_file
    cover_file,   \* main's cover_file
    book,         \* main's book: items, spine, toc, cover
    image_files,  \* main's image_files
    text,         \* main's text
    chapters,     \* main's chapters
    stdout,       \* the lines printed so far
    written,      \* the files written so far
    err,          \* the exception that ended the run, "" while there is none
    log           \* the steps taken so far, in order

vars == <<pc, cwd, front_dir, image_dir, broken, file_text, txt_file, cover_file,
          book, image_files, text, chapters, stdout, written, err, log>>

-----------------------------------------------------------------------------
(* Characters *)

NL == "\n"
LPAREN == "U+FF08"    \* fullwidth left parenthesis
RPAREN == "U+FF09"    \* fullwidth right parenthesis
CHA == "U+63D2"     \* first character of the marker token
TU == "U+5716"        \* second character of the marker token
ZHANG == "U+7AE0"     \* chapter
HUA == "U+8A71"       \* episode
IDSP == "U+3000"      \* ideographic space

\* The characters str.strip() removes, among those of the model.
Whitespace == {NL, " ", IDSP}

\* s[i], or "" outside s.
At(s, i) == IF i >= 1 /\ i <= Len(s) THEN s[i] ELSE ""

SetMin(S) == CHOOSE m \in S : \A n \in S : m <= n

RECURSIVE Concat(_)
\* The concatenation of a sequence of sequences.
Concat(ss) == IF ss = <<>> THEN <<>> ELSE Head(ss) \o Concat(Tail(ss))

-----------------------------------------------------------------------------
(* PLACEHOLDER_REGEX and replace_placeholders_with_images *)

\* re.match of PLACEHOLDER_REGEX at index p: the index after the match, 0 if none.
PlaceholderMatchEnd(s, p) ==
    LET a == p + 1
        b == IF At(s, a) = LPAREN THEN a + 1 ELSE a
        c == b + 2
        d == IF At(s, c) = RPAREN THEN c + 1 ELSE c
    IN IF /\ At(s, p) = NL
          /\ At(s, b) = CHA
          /\ At(s, b + 1) = TU
          /\ At(s, d) = NL
       THEN d + 1
       ELSE 0

\* pattern.search from index `from`: the start of the leftmost match, 0 if none.
PlaceholderSearch(s, from) ==
    LET M == {p \in from..Len(s) : PlaceholderMatchEnd(s, p) # 0}
    IN IF M = {} THEN 0 ELSE SetMin(M)

\* The f-string of line 133.
img_tag(img_filename) ==
    <<NL, "<img src=\"images/", img_filename, "\" alt=\"", img_filename, "\"/>", NL>>

\* A subn that replaces the last match instead of the first.
SubnLast(repl, s) ==
    LET M == {p \in 1..Len(s) : PlaceholderMatchEnd(s, p) # 0}
        p == CHOOSE m \in M : \A n \in M : n <= m
    IN IF M = {}
       THEN [content |-> s, count |-> 0]
       ELSE [content |-> SubSeq(s, 1, p - 1) \o repl
                          \o SubSeq(s, PlaceholderMatchEnd(s, p), Len(s)),
             count |-> 1]

RECURSIVE SubnAll(_, _)
\* A subn without the count of 1: every non-overlapping match is replaced.
SubnAll(repl, s) ==
    LET p == PlaceholderSearch(s, 1)
    IN IF p = 0
       THEN [content |-> s, count |-> 0]
       ELSE LET rest == SubnAll(repl, SubSeq(s, PlaceholderMatchEnd(s, p), Len(s)))
            IN [content |-> SubSeq(s, 1, p - 1) \o repl \o rest.content,
                count |-> 1 + rest.count]

\* placeholder_pattern.subn(repl, s, 1): the leftmost match replaced, and the count.
Subn1(repl, s) ==
    LET p == PlaceholderSearch(s, 1)
    IN IF p = 0
       THEN [content |-> s, count |-> 0]
       ELSE [content |-> SubSeq(s, 1, p - 1) \o repl
                          \o SubSeq(s, PlaceholderMatchEnd(s, p), Len(s)),
             count |-> 1]

RECURSIVE ReplaceLoop(_, _, _, _)
\* The for loop of replace_placeholders_with_images from its i-th iteration on.
ReplaceLoop(content, imgs, i, printed) ==
    IF i > Len(imgs)
    THEN [content |-> content, printed |-> printed]
    ELSE LET r == Subn1(img_tag(imgs[i]), content)
             out == Append(printed, <<"Replacing placeholder with: ", imgs[i]>>)
         IN IF r.count = 0
            THEN [content |-> r.content, printed |-> out]
            ELSE ReplaceLoop(r.content, imgs, i + 1, out)

\* The returned content, and the lines printed.
replace_placeholders_with_images(content, imgs) ==
    ReplaceLoop(content, imgs, 1, <<>>)

-----------------------------------------------------------------------------
(* CHAPTER_REGEX and split_into_chapters *)

\* str.strip(): s without its leading and trailing whitespace.
Strip(s) ==
    LET K == {i \in 1..Len(s) : s[i] \notin Whitespace}
    IN IF K = {}
       THEN <<>>
       ELSE SubSeq(s, SetMin(K), CHOOSE m \in K : \A n \in K : n <= m)

\* The index of the first line feed of s at or after index i, 0 if there is none.
LineEnd(s, i) ==
    LET Q == {q \in i..Len(s) : s[q] = NL}
    IN IF Q = {} THEN 0 ELSE SetMin(Q)

\* re.match of CHAPTER_REGEX at index p: the index after the match, 0 if none.
\* "." matches no line feed, so group 1 is the line that starts at p + 2; it has
\* to hold a title token and to be followed by two line feeds.
ChapterMatchEnd(s, p) ==
    LET q == LineEnd(s, p + 2)
    IN IF /\ At(s, p) = NL
          /\ At(s, p + 1) = NL
          /\ q # 0
          /\ \E i \in (p + 2)..(q - 2) : s[i] \in {ZHANG, HUA} /\ s[i + 1] = IDSP
          /\ At(s, q + 1) = NL
       THEN q + 2
       ELSE 0

\* match.group(1) of the match at index p.
ChapterGroup(s, p) == SubSeq(s, p + 2, LineEnd(s, p + 2) - 1)

\* pattern.search from index `from`: the start of the leftmost match, 0 if none.
ChapterSearch(s, from) ==
    LET M == {p \in from..Len(s) : ChapterMatchEnd(s, p) # 0}
    IN IF M = {} THEN 0 ELSE SetMin(M)

RECURSIVE ChapterFindIter(_, _)
\* pattern.finditer from index `from`: the starts of the matches, in order.
ChapterFindIter(s, from) ==
    LET p == ChapterSearch(s, from)
    IN IF p = 0 THEN <<>> ELSE <<p>> \o ChapterFindIter(s, ChapterMatchEnd(s, p))

\* A chapter body that runs to the end of the text.
start_next_eof(s, end) == Len(s)

\* Lines 121-122: the number of characters before the next match, searched
\* from the end of this one; the length of the text if there is none.
start_next(s, end) ==
    LET next_match == ChapterSearch(s, end)
    IN IF next_match # 0 THEN next_match - 1 ELSE Len(s)

\* The chapters, each <<title, content>>, and the lines printed.
split_into_chapters(s) ==
    LET first_match == ChapterSearch(s, 1)
        preface_end == IF first_match # 0 THEN first_match - 1 ELSE Len(s)
        preface_content == Strip(SubSeq(s, 1, preface_end))
        matches == ChapterFindIter(s, 1)
        chapter(k) ==
            LET end == ChapterMatchEnd(s, matches[k])
            IN <<Strip(ChapterGroup(s, matches[k])),
                 Strip(SubSeq(s, end, start_next(s, end)))>>
    IN [chapters |-> <<<<(<<"Preface">>), preface_content>>>>
                      \o [k \in 1..Len(matches) |-> chapter(k)],
        printed |-> [k \in 1..Len(matches) |->
                        <<"Chapter found: ">> \o Strip(ChapterGroup(s, matches[k]))]]

-----------------------------------------------------------------------------
(* find_cover_image *)

NoFile == [base |-> "", ext |-> ""]

FileName(f) == f.base \o "." \o f.ext

\* glob(f"*.{extension}") in the working directory.
Glob(files, extension) == {f \in files : f.ext = extension}

RECURSIVE FindCoverFrom(_, _)
\* The for loop of find_cover_image over the extensions left.
FindCoverFrom(files, extensions) ==
    IF extensions = <<>>
    THEN [found |-> FALSE, file |-> NoFile]
    ELSE LET found_files == Glob(files, Head(extensions))
         IN IF Cardinality(found_files) = 1
            THEN [found |-> TRUE, file |-> CHOOSE f \in found_files : TRUE]
            ELSE FindCoverFrom(files, Tail(extensions))

CoverExtensions == <<"jpg", "png", "jpeg">>

\* A probe that starts with png.
find_cover_image_png_first(files) == FindCoverFrom(files, <<"png", "jpg", "jpeg">>)

\* The cover file; found is FALSE where the function raises FileNotFoundError.
find_cover_image(files) == FindCoverFrom(files, CoverExtensions)

-----------------------------------------------------------------------------
(* The file system and the book *)

IMAGE_DIRECTORY == "./images/"
FRONT_IMAGE_DIRECTORY == "./front_images/"

\* The image file names of the model, in lexicographic order.
FileNameOrder == <<"01.jpg", "02.jpg", "03.jpg", "04.jpg", "05.jpg">>

\* sorted(listing): the names of the listing in lexicographic order.
sorted(listing) == SelectSeq(FileNameOrder, LAMBDA n : n \in listing)

Digit(d) == <<"0", "1", "2", "3", "4", "5", "6", "7", "8", "9">>[d + 1]

RECURSIVE Str(_)
\* f"{i}"
Str(i) == IF i < 10 THEN Digit(i) ELSE Str(i \div 10) \o Digit(i % 10)

\* f"{i:02}"
Pad2(i) == IF i < 10 THEN "0" \o Str(i) ELSE Str(i)

\* open(path, 'rb').read()
ReadBytes(path) == <<"bytes of ", path>>

\* epub.EpubBook(): nothing added, an empty spine and an empty table of contents.
EpubBook == [items |-> <<>>, spine |-> <<>>, toc |-> <<>>]

EpubItem(file_name, content) ==
    [cls |-> "EpubItem", file_name |-> file_name, title |-> <<>>, content |-> content]

EpubHtml(title, file_name, content) ==
    [cls |-> "EpubHtml", file_name |-> file_name, title |-> title, content |-> content]

\* book.add_item(item)
add_item(b, item) == [b EXCEPT !.items = Append(@, item)]

\* list.insert(index, x) for an index >= 0.
ListInsert(l, index, x) ==
    IF index >= Len(l)
    THEN Append(l, x)
    ELSE SubSeq(l, 1, index) \o <<x>> \o SubSeq(l, index + 1, Len(l))

\* Every front page inserted at the head of the spine.
front_spine_index_zero(i) == 0

\* Line 105: the index at which the i-th front page is inserted in the spine.
front_spine_index(i) == i - 1

\* Lines 102-103.
front_page(i, img_filename) ==
    EpubHtml(<<"Front Image ", Str(i)>>,
             "front_img_" \o Str(i) \o ".xhtml",
             <<"<html><body><img src=\"front_images/", img_filename,
               "\" alt=\"Front Image ", Str(i),
               "\" style=\"max-width: 100%; height: auto;\"/></body></html>">>)

RECURSIVE FrontLoop(_, _, _, _, _)
\* The for loop of add_front_image from its i-th iteration on; ok is FALSE where
\* open() raises, and lg lists the steps taken.
FrontLoop(b, files, i, bad, lg) ==
    IF i > Len(files)
    THEN [book |-> b, ok |-> TRUE, log |-> lg]
    ELSE LET img_path == FRONT_IMAGE_DIRECTORY \o files[i]
             img_page == front_page(i, files[i])
             b1 == add_item(b, EpubItem("front_images/" \o files[i], ReadBytes(img_path)))
             b2 == add_item(b1, img_page)
             b3 == [b2 EXCEPT !.spine = ListInsert(@, front_spine_index(i), img_page)]
         IN IF img_path \in bad
            THEN [book |-> b, ok |-> FALSE, log |-> lg]
            ELSE FrontLoop(b3, files, i + 1, bad,
                           lg \o <<"add_image", "add_page", "spine_insert">>)

\* add_front_image(book), after the listing of the directory.
add_front_image(b, listing, bad) == FrontLoop(b, sorted(listing), 1, bad, <<>>)

RECURSIVE ImagesLoop(_, _, _, _, _)
\* The for loop of lines 59-60 from its i-th iteration on.
ImagesLoop(b, files, i, bad, lg) ==
    IF i > Len(files)
    THEN [book |-> b, ok |-> TRUE, log |-> lg]
    ELSE LET img_path == IMAGE_DIRECTORY \o files[i]
         IN IF img_path \in bad
            THEN [book |-> b, ok |-> FALSE, log |-> lg]
            ELSE ImagesLoop(add_item(b, EpubItem("images/" \o files[i], ReadBytes(img_path))),
                            files, i + 1, bad, Append(lg, "add_image"))

\* chapter_content.replace("\n", "<br/>")
ReplaceNL(s) == [i \in 1..Len(s) |-> IF s[i] = NL THEN "<br/>" ELSE s[i]]

\* Lines 73-74: the page of the i-th chapter.
chapter_page(i, chapter) ==
    EpubHtml(chapter[1],
             "chap_" \o Pad2(i) \o ".xhtml",
             <<"<html><body><h1>">> \o chapter[1] \o <<"</h1><p>">>
                 \o ReplaceNL(chapter[2]) \o <<"</p></body></html>">>)

\* Line 77: epub.Link(href, title, uid)
chapter_link(i, chapter) ==
    [href |-> "chap_" \o Pad2(i) \o ".xhtml", title |-> chapter[1], uid |-> "chap" \o Str(i)]

RECURSIVE ChaptersLoop(_, _, _, _)
\* The for loop of lines 72-77 from its i-th iteration on.
ChaptersLoop(b, chaps, i, lg) ==
    IF i > Len(chaps)
    THEN [book |-> b, log |-> lg]
    ELSE LET c == chapter_page(i, chaps[i])
             b1 == add_item(b, c)
             b2 == [b1 EXCEPT !.spine = Append(@, c),
                              !.toc = Append(@, chapter_link(i, chaps[i]))]
         IN ChaptersLoop(b2, chaps, i + 1,
                         lg \o <<"add_page", "spine_append", "toc_append">>)

\* book.set_cover(file_name, content): the cover image and its page are added
\* to the items; the spine is left alone.
set_cover(b, file_name, content) ==
    add_item(add_item(b, [cls |-> "EpubCover", file_name |-> file_name,
                          title |-> <<>>, content |-> content]),
             [cls |-> "EpubCoverHtml", file_name |-> "cover.xhtml",
              title |-> <<"Cover">>, content |-> <<file_name>>])

\* Lines 80-81.
add_ncx_nav(b) ==
    add_item(add_item(b, [cls |-> "EpubNcx", file_name |-> "toc.ncx",
                          title |-> <<>>, content |-> <<>>]),
             [cls |-> "EpubNav", file_name |-> "nav.xhtml",
              title |-> <<>>, content |-> <<>>])

-----------------------------------------------------------------------------
(* main *)

\* The statements of main in a changed order: the book is written before the
\* cover is read.
StmtAfterWriteEarly(stmt) ==
    CASE stmt = "glob_txt" -> "find_cover"
      [] stmt = "find_cover" -> "new_book"
      [] stmt = "new_book" -> "add_front_image"
      [] stmt = "add_front_image" -> "read_text"
      [] stmt = "read_text" -> "list_images"
      [] stmt = "list_images" -> "replace"
      [] stmt = "replace" -> "add_images"
      [] stmt = "add_images" -> "split"
      [] stmt = "split" -> "write_epub"
      [] stmt = "write_epub" -> "set_cover"
      [] stmt = "set_cover" -> "add_chapters"
      [] stmt = "add_chapters" -> "add_ncx_nav"
      [] stmt = "add_ncx_nav" -> "done"

\* The statements of main in a changed order: the text is split into chapters
\* before the placeholders are replaced.
StmtAfterSplitEarly(stmt) ==
    CASE stmt = "glob_txt" -> "find_cover"
      [] stmt = "find_cover" -> "new_book"
      [] stmt = "new_book" -> "add_front_image"
      [] stmt = "add_front_image" -> "read_text"
      [] stmt = "read_text" -> "list_images"
      [] stmt = "list_images" -> "split"
      [] stmt = "split" -> "replace"
      [] stmt = "replace" -> "add_images"
      [] stmt = "add_images" -> "set_cover"
      [] stmt = "set_cover" -> "add_chapters"
      [] stmt = "add_chapters" -> "add_ncx_nav"
      [] stmt = "add_ncx_nav" -> "write_epub"
      [] stmt = "write_epub" -> "done"

\* The statement of main that follows stmt (lines 43-84, top to bottom).
StmtAfter(stmt) ==
    CASE stmt = "glob_txt" -> "find_cover"
      [] stmt = "find_cover" -> "new_book"
      [] stmt = "new_book" -> "add_front_image"
      [] stmt = "add_front_image" -> "read_text"
      [] stmt = "read_text" -> "list_images"
      [] stmt = "list_images" -> "replace"
      [] stmt = "replace" -> "add_images"
      [] stmt = "add_images" -> "split"
      [] stmt = "split" -> "set_cover"
      [] stmt = "set_cover" -> "add_chapters"
      [] stmt = "add_chapters" -> "add_ncx_nav"
      [] stmt = "add_ncx_nav" -> "write_epub"
      [] stmt = "write_epub" -> "done"

env == <<cwd, front_dir, image_dir, broken, file_text>>

\* An uncaught exception ends the run.
Raise(exception) == pc' = "aborted" /\ err' = exception

Continue == pc' = StmtAfter(pc) /\ err' = err

\* Line 43: txt_file = glob('*.txt')[0]
GlobTxt ==
    /\ pc = "glob_txt"
    /\ IF Glob(cwd, "txt") = {}
       THEN Raise("IndexError") /\ UNCHANGED <<txt_file, log>>
       ELSE /\ \E f \in Glob(cwd, "txt") : txt_file' = f
            /\ log' = Append(log, "glob_txt")
            /\ Continue
    /\ UNCHANGED <<env, cover_file, book, image_files, text, chapters, stdout, written>>

\* Line 44: cover_file = find_cover_image()
FindCover ==
    /\ pc = "find_cover"
    /\ LET r == find_cover_image(cwd)
       IN IF r.found
          THEN cover_file' = r.file /\ log' = Append(log, "find_cover") /\ Continue
          ELSE Raise("FileNotFoundError") /\ UNCHANGED <<cover_file, log>>
    /\ UNCHANGED <<env, txt_file, book, image_files, text, chapters, stdout, written>>

\* Line 47: book = epub.EpubBook()
NewBook ==
    /\ pc = "new_book"
    /\ book' = EpubBook
    /\ log' = Append(log, "new_book")
    /\ Continue
    /\ UNCHANGED <<env, txt_file, cover_file, image_files, text, chapters, stdout, written>>

\* Line 49: add_front_image(book)
AddFrontImage ==
    /\ pc = "add_front_image"
    /\ IF FRONT_IMAGE_DIRECTORY \in broken
       THEN Raise("OSError") /\ UNCHANGED <<book, log>>
       ELSE LET r == add_front_image(book, front_dir, broken)
            IN /\ book' = r.book
               /\ log' = Append(log, "list_front") \o r.log
               /\ IF r.ok THEN Continue ELSE Raise("OSError")
    /\ UNCHANGED <<env, txt_file, cover_file, image_files, text, chapters, stdout, written>>

\* Lines 52-53: text = file.read()
ReadText ==
    /\ pc = "read_text"
    /\ IF FileName(txt_file) \in broken
       THEN Raise("OSError") /\ UNCHANGED <<text, log>>
       ELSE text' = file_text /\ log' = Append(log, "read_text") /\ Continue
    /\ UNCHANGED <<env, txt_file, cover_file, book, image_files, chapters, stdout, written>>

\* Line 55: image_files = sorted(os.listdir(IMAGE_DIRECTORY))
ListImages ==
    /\ pc = "list_images"
    /\ IF IMAGE_DIRECTORY \in broken
       THEN Raise("OSError") /\ UNCHANGED <<image_files, log>>
       ELSE /\ image_files' = sorted(image_dir)
            /\ log' = Append(log, "list_images")
            /\ Continue
    /\ UNCHANGED <<env, txt_file, cover_file, book, text, chapters, stdout, written>>

\* Line 57: text = replace_placeholders_with_images(text, image_files)
Replace ==
    /\ pc = "replace"
    /\ LET r == replace_placeholders_with_images(text, image_files)
       IN text' = r.content /\ stdout' = stdout \o r.printed
    /\ log' = Append(log, "substitute")
    /\ Continue
    /\ UNCHANGED <<env, txt_file, cover_file, book, image_files, chapters, written>>

\* Lines 59-60: every placeholder image is read and added to the book.
AddImages ==
    /\ pc = "add_images"
    /\ LET r == ImagesLoop(book, image_files, 1, broken, <<>>)
       IN /\ book' = r.book
          /\ log' = log \o r.log
          /\ IF r.ok THEN Continue ELSE Raise("OSError")
    /\ UNCHANGED <<env, txt_file, cover_file, image_files, text, chapters, stdout, written>>

\* Lines 64-66: chapters = split_into_chapters(text, chapter_pattern)
Split ==
    /\ pc = "split"
    /\ LET r == split_into_chapters(text)
       IN chapters' = r.chapters /\ stdout' = stdout \o r.printed
    /\ log' = Append(log, "segment")
    /\ Continue
    /\ UNCHANGED <<env, txt_file, cover_file, book, image_files, text, written>>

\* Lines 68-69: the cover file is read and set as the cover.
SetCover ==
    /\ pc = "set_cover"
    /\ IF FileName(cover_file) \in broken
       THEN Raise("OSError") /\ UNCHANGED <<book, log>>
       ELSE /\ book' = set_cover(book, FileName(cover_file), ReadBytes(FileName(cover_file)))
            /\ log' = Append(log, "set_cover")
            /\ Continue
    /\ UNCHANGED <<env, txt_file, cover_file, image_files, text, chapters, stdout, written>>

\* Lines 72-77: a page, a spine entry and a link for every chapter.
AddChapters ==
    /\ pc = "add_chapters"
    /\ LET r == ChaptersLoop(book, chapters, 1, <<>>)
       IN book' = r.book /\ log' = log \o r.log
    /\ Continue
    /\ UNCHANGED <<env, txt_file, cover_file, image_files, text, chapters, stdout, written>>

\* Lines 80-81: book.add_item(epub.EpubNcx()); book.add_item(epub.EpubNav())
AddNcxNav ==
    /\ pc = "add_ncx_nav"
    /\ book' = add_ncx_nav(book)
    /\ log' = Append(log, "add_ncx_nav")
    /\ Continue
    /\ UNCHANGED <<env, txt_file, cover_file, image_files, text, chapters, stdout, written>>

\* Line 84: epub.write_epub(txt_file[:-4] + ".epub", book, {})
WriteEpub ==
    /\ pc = "write_epub"
    /\ written' = Append(written, [file_name |-> txt_file.base \o ".epub", book |-> book])
    /\ log' = Append(log, "write_epub")
    /\ Continue
    /\ UNCHANGED <<env, txt_file, cover_file, book, image_files, text, chapters, stdout>>

-----------------------------------------------------------------------------
(* Inputs *)

\* The longest text of a call of replace_placeholders_with_images, in units.
MaxUnits == 6
\* The longest text of a call of split_into_chapters, in units.
MaxChapterUnits == 7
\* The longest text of a run of main, in segments.
MaxSegs == 2
\* The most files of either image directory.
MaxFiles == 2

RECURSIVE Texts(_, _)
\* The concatenations of at most n of the units.
Texts(units, n) ==
    IF n = 0
    THEN {<<>>}
    ELSE LET T == Texts(units, n - 1) IN T \cup {t \o u : t \in T, u \in units}

PlaceholderUnits == {<<NL>>, <<CHA, TU>>, <<LPAREN>>, <<RPAREN>>, <<"x">>}

ChapterUnits == {<<NL>>, <<NL, NL>>, <<ZHANG, IDSP>>, <<HUA>>, <<"x">>}

MainUnits == {<<"x">>, <<NL, CHA, TU, NL>>, <<NL, NL, "x", ZHANG, IDSP, "y", NL, NL>>}

\* The listings of an image directory: its first k names, in any order.
Listings == {{FileNameOrder[i] : i \in 1..k} : k \in 0..MaxFiles}

CwdFiles == {[base |-> "n", ext |-> "txt"], [base |-> "m", ext |-> "txt"],
             [base |-> "a", ext |-> "jpg"], [base |-> "b", ext |-> "png"]}

CoverFiles == {[base |-> "a", ext |-> "jpg"], [base |-> "b", ext |-> "jpg"],
               [base |-> "c", ext |-> "png"], [base |-> "d", ext |-> "png"],
               [base |-> "e", ext |-> "jpeg"], [base |-> "f", ext |-> "jpeg"],
               [base |-> "n", ext |-> "txt"]}

\* The paths main opens or lists.
Paths ==
    {FRONT_IMAGE_DIRECTORY, IMAGE_DIRECTORY}
        \cup {FRONT_IMAGE_DIRECTORY \o FileNameOrder[i] : i \in 1..MaxFiles}
        \cup {IMAGE_DIRECTORY \o FileNameOrder[i] : i \in 1..MaxFiles}
        \cup {FileName(f) : f \in CwdFiles}

\* The run ends at the first path that fails, so one broken path stands for
\* every set of broken paths with the same first failure.
Faults == {{}} \cup {{p} : p \in Paths}

Locals ==
    /\ txt_file = NoFile
    /\ cover_file = NoFile
    /\ book = EpubBook
    /\ image_files = <<>>
    /\ text = <<>>
    /\ chapters = <<>>
    /\ stdout = <<>>
    /\ written = <<>>
    /\ err = ""
    /\ log = <<>>

\* A run of main.
Init ==
    /\ pc = "glob_txt"
    /\ cwd \in SUBSET CwdFiles
    /\ front_dir \in Listings
    /\ image_dir \in Listings
    /\ broken \in Faults
    /\ file_text \in Texts(MainUnits, MaxSegs)
    /\ Locals

Next ==
    \/ GlobTxt
    \/ FindCover
    \/ NewBook
    \/ AddFrontImage
    \/ ReadText
    \/ ListImages
    \/ Replace
    \/ AddImages
    \/ Split
    \/ SetCover
    \/ AddChapters
    \/ AddNcxNav
    \/ WriteEpub

Spec == Init /\ [][Next]_vars

\* A call of find_cover_image in a working directory.
CoverInit ==
    /\ pc = "find_cover"
    /\ cwd \in SUBSET CoverFiles
    /\ front_dir = {} /\ image_dir = {} /\ broken = {} /\ file_text = <<>>
    /\ Locals

CoverNext == FindCover

CoverSpec == CoverInit /\ [][CoverNext]_vars

\* A call of replace_placeholders_with_images(text, image_files).
ReplaceInit ==
    /\ pc = "replace"
    /\ cwd = {} /\ front_dir = {} /\ broken = {}
    /\ image_dir \in Listings
    /\ file_text \in Texts(PlaceholderUnits, MaxUnits)
    /\ txt_file = NoFile
    /\ cover_file = NoFile
    /\ book = EpubBook
    /\ image_files = sorted(image_dir)
    /\ text = file_text
    /\ chapters = <<>>
    /\ stdout = <<>>
    /\ written = <<>>
    /\ err = ""
    /\ log = <<>>

ReplaceNext == Replace

ReplaceSpec == ReplaceInit /\ [][ReplaceNext]_vars

\* A call of split_into_chapters(text, chapter_pattern).
SplitInit ==
    /\ pc = "split"
    /\ cwd = {} /\ front_dir = {} /\ image_dir = {} /\ broken = {}
    /\ file_text \in Texts(ChapterUnits, MaxChapterUnits)
    /\ txt_file = NoFile
    /\ cover_file = NoFile
    /\ book = EpubBook
    /\ image_files = <<>>
    /\ text = file_text
    /\ chapters = <<>>
    /\ stdout = <<>>
    /\ written = <<>>
    /\ err = ""
    /\ log = <<>>

SplitNext == Split

SplitSpec == SplitInit /\ [][SplitNext]_vars

-----------------------------------------------------------------------------
(* Placeholder substitution: C1, C7, C8 *)

Min(a, b) == IF a <= b THEN a ELSE b

\* The four spellings of a marker line, with the line feed before and after it.
MarkerForms ==
    {<<NL, CHA, TU, NL>>, <<NL, LPAREN, CHA, TU, NL>>,
     <<NL, CHA, TU, RPAREN, NL>>, <<NL, LPAREN, CHA, TU, RPAREN, NL>>}

\* The indices of s at which a marker line starts (at its leading line feed).
MarkerLines(s) ==
    {p \in 1..Len(s) : \E m \in MarkerForms :
        p + Len(m) - 1 <= Len(s) /\ SubSeq(s, p, p + Len(m) - 1) = m}

\* The index of the line feed that ends the marker line at p.
MarkerLast(s, p) ==
    CHOOSE e \in p..Len(s) : \E m \in MarkerForms :
        e = p + Len(m) - 1 /\ SubSeq(s, p, e) = m

\* The marker line at p is the MarkerRank-th of s, in document order.
MarkerRank(s, p) == Cardinality({m \in MarkerLines(s) : m <= p})

\* The image reference of a file, without the line feeds around it.
ImageReference(f) == SubSeq(img_tag(f), 2, Len(img_tag(f)) - 1)

\* s with the i-th marker line replaced by the reference to the i-th image, for
\* every i up to the shorter of the two counts, and nothing else changed.
ExpectedSubstitution(s, imgs) ==
    LET n == Min(Cardinality(MarkerLines(s)), Len(imgs))
        Piece(q) ==
            LET inside == {p \in MarkerLines(s) :
                              /\ MarkerRank(s, p) <= n
                              /\ p < q
                              /\ q < MarkerLast(s, p)}
            IN IF inside = {}
               THEN <<s[q]>>
               ELSE LET p == CHOOSE m \in inside : TRUE
                    IN IF q = p + 1
                       THEN ImageReference(imgs[MarkerRank(s, p)])
                       ELSE <<>>
    IN Concat([q \in 1..Len(s) |-> Piece(q)])

\* The number of image references in s.
TagCount(s) == Cardinality({q \in 1..Len(s) : s[q] = "<img src=\"images/"})

\* The number of references to the image f in s.
SubstCount(s, f) ==
    Cardinality({q \in 1..Len(s) : s[q] = "<img src=\"images/" /\ At(s, q + 1) = f})

\* replace_placeholders_with_images has just returned.
Replaced == log # <<>> /\ log[Len(log)] = "substitute"

\* C1: with K marker lines and M images, the i-th marker line in document order
\* is replaced by the reference to the i-th image for i = 1..min(K, M), and the
\* other K - min(K, M) marker lines are left in the text as they were.
C1_Substitution ==
    Replaced =>
        LET K == Cardinality(MarkerLines(file_text))
            M == Len(image_files)
        IN /\ text = ExpectedSubstitution(file_text, image_files)
           /\ TagCount(text) = Min(K, M)
           /\ Cardinality(MarkerLines(text)) = K - Min(K, M)

\* More marker lines than images: the first is replaced, another is left.
C1_Witness ==
    /\ Replaced
    /\ Len(image_files) >= 1
    /\ Cardinality(MarkerLines(file_text)) > Len(image_files)
    /\ TagCount(text) = Len(image_files)
    /\ MarkerLines(text) # {}

RECURSIVE PlaceholderFindIter(_, _)
\* The non-overlapping matches of the marker pattern in s from index `from`,
\* left to right: their starts.
PlaceholderFindIter(s, from) ==
    LET p == PlaceholderSearch(s, from)
    IN IF p = 0
       THEN <<>>
       ELSE <<p>> \o PlaceholderFindIter(s, PlaceholderMatchEnd(s, p))

RECURSIVE ApplyRightToLeft(_, _, _, _)
\* The first i matches of the original text replaced, the i-th first.
ApplyRightToLeft(s, matches, imgs, i) ==
    IF i = 0
    THEN s
    ELSE ApplyRightToLeft(SubSeq(s, 1, matches[i] - 1) \o img_tag(imgs[i])
                              \o SubSeq(s, PlaceholderMatchEnd(s, matches[i]), Len(s)),
                          matches, imgs, i - 1)

\* The single-pass strategy: the matches of the original text paired with the
\* images, capped at the shorter length, and replaced right to left.
SinglePass(s, imgs) ==
    LET matches == PlaceholderFindIter(s, 1)
    IN ApplyRightToLeft(s, matches, imgs, Min(Len(matches), Len(imgs)))

\* No two marker lines of s share a line feed.
NoSharedNewline(s) ==
    \A p, q \in MarkerLines(s) : p < q => MarkerLast(s, p) < q

\* C7 as claimed: the single pass gives the text the loop gives, for every text.
C7_SinglePassAlways ==
    Replaced => text = SinglePass(file_text, image_files)

\* C7: the single pass gives the text the loop gives for every text in which
\* no two marker lines share a line feed.
C7_SinglePassDisjoint ==
    (Replaced /\ NoSharedNewline(file_text))
        => text = SinglePass(file_text, image_files)

\* Two marker lines with their own line feeds and two images, both replaced.
C7_Witness ==
    /\ Replaced
    /\ NoSharedNewline(file_text)
    /\ Cardinality(MarkerLines(file_text)) >= 2
    /\ Len(image_files) >= 2
    /\ TagCount(text) = 2

\* C8: one line is printed for every substitution performed and none besides,
\* and every image a line names is in the returned text.
C8_OneLinePerSubstitution ==
    Replaced =>
        /\ Len(stdout) = TagCount(text)
        /\ \A i \in 1..Len(stdout) : SubstCount(text, stdout[i][2]) >= 1

-----------------------------------------------------------------------------
(* Chapter segmentation: C2, C10 *)

\* The matches of the chapter pattern in s, overlapping ones included, each
\* <<start, end>> with end the index after it: two line feeds, a line with a
\* title token (ZHANG or HUA, then an ideographic space), two line feeds.
TitleMatches(s) ==
    {m \in (1..Len(s)) \X (1..(Len(s) + 1)) :
        /\ m[1] + 5 < m[2]
        /\ SubSeq(s, m[1], m[1] + 1) = <<NL, NL>>
        /\ SubSeq(s, m[2] - 2, m[2] - 1) = <<NL, NL>>
        /\ \A i \in (m[1] + 2)..(m[2] - 3) : s[i] # NL
        /\ \E i \in (m[1] + 2)..(m[2] - 4) : s[i] \in {ZHANG, HUA} /\ s[i + 1] = IDSP}

\* The non-overlapping matches, left to right: a match is taken unless a taken
\* match that starts before it runs into it.
TakenMatches(s) ==
    CHOOSE S \in SUBSET TitleMatches(s) :
        S = {m \in TitleMatches(s) : \A t \in S : t[1] < m[1] => t[2] <= m[1]}

\* The k-th match of S, by start.
KthMatch(S, k) == CHOOSE m \in S : Cardinality({t \in S : t[1] < m[1]}) = k - 1

\* The chapters the matches S of s make: the preface before the first, then a
\* chapter a match, its body the text up to the next match.
ChaptersOf(s, S) ==
    LET N == Cardinality(S)
        start(k) == IF k <= N THEN KthMatch(S, k)[1] ELSE Len(s) + 1
    IN <<<<(<<"Preface">>), Strip(SubSeq(s, 1, start(1) - 1))>>>>
           \o [k \in 1..N |->
                  <<Strip(SubSeq(s, KthMatch(S, k)[1] + 2, KthMatch(S, k)[2] - 3)),
                    Strip(SubSeq(s, KthMatch(S, k)[2], start(k + 1) - 1))>>]

\* split_into_chapters has just returned.
Segmented == log # <<>> /\ log[Len(log)] = "segment"

\* C2: with N non-overlapping left-to-right matches there are N + 1 chapters:
\* the preface with the trimmed text before the first match, then for the k-th
\* match its trimmed group as title and the trimmed text up to the next match
\* (or the end of the text) as body.
C2_Chapters ==
    Segmented =>
        /\ Len(chapters) = Cardinality(TakenMatches(text)) + 1
        /\ chapters = ChaptersOf(text, TakenMatches(text))

\* Two chapters after the preface, the first with a body.
C2_Witness ==
    /\ Segmented
    /\ Len(chapters) = 3
    /\ chapters[2][2] # <<>>

\* C10: every title line between two empty lines is the title of a chapter of
\* its own, also where two title lines have one empty line between them.
C10_EveryTitleLine ==
    Segmented =>
        /\ Len(chapters) = Cardinality(TitleMatches(text)) + 1
        /\ chapters = ChaptersOf(text, TitleMatches(text))

-----------------------------------------------------------------------------
(* Cover discovery: C3 *)

\* The extensions, in the order of the probe, with exactly one file in cwd.
SingleFileExtensions ==
    {i \in 1..3 : Cardinality(Glob(cwd, <<"jpg", "png", "jpeg">>[i])) = 1}

\* find_cover_image has returned or raised.
CoverProbed == pc # "find_cover"

\* C3: the cover is the one file of the first extension among jpg, png, jpeg
\* that has exactly one file; the probe fails with the not-found error exactly
\* when no extension has exactly one file.
C3_Cover ==
    CoverProbed =>
        /\ (SingleFileExtensions = {}) <=> (pc = "aborted" /\ err = "FileNotFoundError")
        /\ SingleFileExtensions # {} =>
              /\ err = ""
              /\ Glob(cwd, <<"jpg", "png", "jpeg">>[SetMin(SingleFileExtensions)])
                     = {cover_file}

\* Two jpg files are passed over and the one png file is the cover.
C3_Witness ==
    /\ CoverProbed
    /\ Cardinality(Glob(cwd, "jpg")) = 2
    /\ Cardinality(Glob(cwd, "png")) = 1
    /\ cover_file.ext = "png"

-----------------------------------------------------------------------------
(* A run of main: C4, C5, C6, C9 *)

\* The pages of the spine of book b that show the front image f.
FrontPagesOf(b, f) ==
    {i \in 1..Len(b.spine) :
        /\ b.spine[i].content[1] = "<html><body><img src=\"front_images/"
        /\ b.spine[i].content[2] = f}

\* C4: the spine of the book that is written is the F front pages in ascending
\* file name order, then the preface and the N chapters in source order.
C4_Spine ==
    pc = "done" =>
        LET b == written[1].book
            F == Cardinality(front_dir)
        IN /\ Len(b.spine) = F + Len(chapters)
           /\ \A i \in 1..F : FrontPagesOf(b, FileNameOrder[i]) = {i}
           /\ \A j \in 1..Len(chapters) :
                 /\ b.spine[F + j].file_name = "chap_" \o Pad2(j) \o ".xhtml"
                 /\ b.spine[F + j].title = chapters[j][1]

\* A written book with two front pages and a chapter after the preface.
C4_Witness ==
    /\ pc = "done"
    /\ Cardinality(front_dir) = 2
    /\ Len(chapters) >= 2
    /\ Len(written[1].book.spine) >= 4

\* The paths a complete run lists or opens.
PathsUsed ==
    {FRONT_IMAGE_DIRECTORY, IMAGE_DIRECTORY, FileName(txt_file), FileName(cover_file)}
        \cup {FRONT_IMAGE_DIRECTORY \o f : f \in front_dir}
        \cup {IMAGE_DIRECTORY \o f : f \in image_dir}

\* C5: a run that completes has written exactly one file, named after the text
\* file, and met no failure point; a run that has not completed, an aborted one
\* included, has written none; a run aborts only at a failure point.
C5_AllOrNothing ==
    /\ pc = "done" =>
          /\ Len(written) = 1
          /\ written[1].file_name = txt_file.base \o ".epub"
          /\ err = ""
          /\ broken \cap PathsUsed = {}
    /\ pc # "done" => written = <<>>
    /\ pc = "aborted" =>
          \/ err = "IndexError" /\ Glob(cwd, "txt") = {}
          \/ err = "FileNotFoundError" /\ ~find_cover_image(cwd).found
          \/ err = "OSError" /\ broken \cap PathsUsed # {}

\* The last failure point: the cover cannot be read, with the front pages and
\* the images already in the book.
C5_Witness ==
    /\ pc = "aborted"
    /\ err = "OSError"
    /\ "segment" \in {log[i] : i \in 1..Len(log)}
    /\ Len(book.items) >= 2
    /\ written = <<>>

\* C6 as claimed: every placeholder image is in exactly one substitution and
\* every front image on exactly one front page.
C6_ExactlyOnce ==
    pc = "done" =>
        /\ \A f \in image_dir : SubstCount(text, f) = 1
        /\ \A f \in front_dir : Cardinality(FrontPagesOf(written[1].book, f)) = 1

\* C6: with K marker lines, the i-th placeholder image is in exactly one
\* substitution if i <= K and in none otherwise (never in two), and every
\* front image is on exactly one front page.
C6_AtMostOnce ==
    pc = "done" =>
        /\ \A i \in 1..Len(image_files) :
              SubstCount(text, image_files[i])
                  = IF i <= Cardinality(MarkerLines(file_text)) THEN 1 ELSE 0
        /\ \A f \in front_dir : Cardinality(FrontPagesOf(written[1].book, f)) = 1

\* One marker line and two images: the second image is in no substitution.
C6_Witness ==
    /\ pc = "done"
    /\ Cardinality(MarkerLines(file_text)) = 1
    /\ Len(image_files) = 2
    /\ SubstCount(text, image_files[1]) = 1
    /\ SubstCount(text, image_files[2]) = 0
    /\ front_dir # {}

Discovery == {"glob_txt", "find_cover", "list_front", "list_images"}

\* The steps that add an image or a page to the book or change its spine.
Assembly == {"add_image", "add_page", "spine_insert", "spine_append"}

\* Step a is in the log before its index j.
Before(a, j) == \E i \in 1..(j - 1) : log[i] = a

\* Discovery is complete before the substitution, which is before the segmentation.
StagesInOrder ==
    \A j \in 1..Len(log) :
        /\ log[j] = "substitute" => \A d \in Discovery : Before(d, j)
        /\ log[j] \in Discovery => ~Before("substitute", j)
        /\ log[j] = "segment" => Before("substitute", j)
        /\ log[j] = "substitute" => ~Before("segment", j)

\* C9 as claimed: the stages are in order and no assembly step is taken before
\* the segmentation.
C9_AssemblyAfterSegmentation ==
    /\ StagesInOrder
    /\ \A j \in 1..Len(log) : log[j] \in Assembly => Before("segment", j)

\* C9: the stages are in order; the front images and their pages are added,
\* and the pages inserted in the spine, before the text is read; the
\* placeholder images are added between substitution and segmentation; only
\* the cover, the chapter pages, their spine and contents entries, the
\* navigation items and the writing of the book come after the segmentation.
C9_ChapterPagesAfterSegmentation ==
    /\ StagesInOrder
    /\ \A j \in 1..Len(log) :
          /\ log[j] = "spine_insert" => ~Before("read_text", j)
          /\ (log[j] = "add_image" /\ Before("read_text", j))
                => (Before("substitute", j) /\ ~Before("segment", j))
          /\ (log[j] = "add_page" /\ Before("read_text", j)) => Before("segment", j)
          /\ log[j] \in {"set_cover", "spine_append", "toc_append", "add_ncx_nav",
                         "write_epub"} => Before("segment", j)

\* A complete run with a front page, a placeholder image and a chapter page.
C9_Witness ==
    /\ pc = "done"
    /\ front_dir # {}
    /\ image_files # <<>>
    /\ Len(chapters) >= 2
    /\ \E j \in 1..Len(log) : log[j] = "spine_insert" /\ ~Before("segment", j)

====
